---- MODULE Spec2Model ----
(***************************************************************************)
(* Model of BaseAnnotationClient (geti_sdk/rest_clients/annotation_clients *)
(* /base_annotation_client.py): paginated media enumeration, label mapping *)
(* resolution, scene upload / append / fetch and the bulk download loop.   *)
(*                                                                         *)
(* The transport (session.get_rest_response), the REST converters, the     *)
(* annotation reader and the file system are the environment: what they    *)
(* answer is drawn with \E from bounded sets in the action that calls them.*)
(***************************************************************************)
EXTENDS Integers, Sequences, FiniteSets, TLC

\* Python's None, wherever a value may be absent
None == [tag |-> "None"]

(* ----------------------------- bounds --------------------------------- *)
MaxPages == 3        \* pages the server chains with next_page
MaxPageSize == 2     \* items in one page
MaxTotal == 3        \* declared media_count
MaxSourceLabels == 2   \* label names the annotation reader returns
MaxProjectLabels == 2  \* labels of the project
MaxAnnotations == 2    \* annotations in one list (reader data, remote scene)
MaxItems == 2          \* media items in the list given to the bulk download

VARIABLES
    \* _get_all_media_in_dataset_by_type
    enum_pc,                \* "idle" | "while" | "done" | "raised"
    media_type,             \* the media_type argument ("none" when idle)
    server_pages,           \* the server's page chain: item count of each page
    response,               \* the response dict held by the loop (None before)
    response_appended,      \* the held response went through the for loop
    total_number_of_media,
    raw_media_list,
    get_count,              \* GET requests issued by the call
    enum_result,            \* returned MediaList, or the raised error
    \* the client object: __init__, __get_label_mapping, label_mapping
    client_pc,              \* "new" | "ready" | "raised" (constructor raised)
    annotation_reader,      \* None, or [label_names |-> <<...>>]
    project,                \* [label_id_to_name_mapping |-> <<<<id, name>>, ...>>]
    label_mapping_cache,    \* self._label_mapping
    label_names_reads,      \* calls of annotation_reader.get_all_label_names()
    label_result,           \* outcome of the last __init__ / label_mapping access
    \* replace / append / getLatestScene: the last call and what it did
    version,                \* session.version
    call,                   \* the call's name and inputs
    requests,               \* HTTP requests the call issued, in order
    reader_calls,           \* annotation_reader.get_data calls of the call
    converters,             \* REST converter functions the call used, in order
    scene_to_upload,        \* the scene the call built or merged (None: none)
    scene_result,           \* what the call returned or raised
    \* _download_annotations_for_2d_media_list
    dl_pc,                  \* "idle" | "loop" | "done" | "raised"
    media_list,             \* [media_type, items]
    append_media_uid,
    folder_created,         \* os.makedirs(path_to_annotations_folder) has run
    index,                  \* items of media_list the for loop has consumed
    download_count,
    skip_count,
    fetch_count,            \* GET .../annotations/latest requests of the call
    outcomes,               \* what the platform answered to each of them
    disk,                   \* the annotations folder: filename -> file content
    writes,                 \* the files written, in order: [index, filename]
    dl_result               \* t_elapsed returned, or the raised error

enumVars == <<enum_pc, media_type, server_pages, response, response_appended,
              total_number_of_media, raw_media_list, get_count, enum_result>>

clientVars == <<client_pc, annotation_reader, project, label_mapping_cache,
                label_names_reads, label_result>>

sceneVars == <<version, call, requests, reader_calls, converters,
               scene_to_upload, scene_result>>

dlVars == <<dl_pc, media_list, append_media_uid, folder_created, index,
            download_count, skip_count, fetch_count, outcomes, disk, writes,
            dl_result>>

vars == <<enumVars, clientVars, sceneVars, dlVars>>

\* The client is used from one thread: a call starts when no call is running.
EnumIdle == enum_pc = "idle"
SceneIdle == call.op = "none"
DownloadIdle == dl_pc = "idle"
Idle == EnumIdle /\ SceneIdle /\ DownloadIdle

(* ------------------------- helpers ------------------------------------ *)
RECURSIVE Concat(_)
Concat(ss) == IF ss = <<>> THEN <<>> ELSE Head(ss) \o Concat(Tail(ss))

RECURSIVE SumSeq(_)
SumSeq(s) == IF s = <<>> THEN 0 ELSE Head(s) + SumSeq(Tail(s))

(* ===================== Media Enumerator =============================== *)
MediaTypes == {"Image", "Video", "VideoFrame"}

\* The raw item dicts of page p: the i-th item of page p is <<p, i>>.
PageMedia(sizes, p) == [i \in 1..sizes[p] |-> <<p, i>>]

\* What the server answers to the GET of page p: "next_page" is a key of the
\* dict only when another page follows.
ServerResponse(total, sizes, p) ==
    IF p < Len(sizes)
    THEN [media_count |-> total, media |-> PageMedia(sizes, p), next_page |-> p + 1]
    ELSE [media_count |-> total, media |-> PageMedia(sizes, p)]

\* Every item the server holds, in the order its pages yield them.
AllServerMedia(sizes) == Concat([p \in 1..Len(sizes) |-> PageMedia(sizes, p)])

LoopConditionOffByOne(raw, total) == Len(raw) < total - 1

\* line 115: the while condition
LoopCondition(raw, total) == Len(raw) < total

MediaNameLenient(mt) == IF mt = "Image" THEN "images"
                        ELSE IF mt = "Video" THEN "videos" ELSE "video_frames"

\* lines 101-106: the url segment of the media type, "invalid" where the code raises
MediaName(mt) == IF mt = "Image" THEN "images"
                 ELSE IF mt = "Video" THEN "videos" ELSE "invalid"

EnumInit ==
    /\ enum_pc = "idle"
    /\ media_type = "none"
    /\ server_pages = <<>>
    /\ response = None
    /\ response_appended = FALSE
    /\ total_number_of_media = 0
    /\ raw_media_list = <<>>
    /\ get_count = 0
    /\ enum_result = None

\* lines 101-115: the call up to the first evaluation of the while condition
GetAllMediaCall(mt, total, sizes) ==
    /\ Idle
    /\ UNCHANGED <<clientVars, sceneVars, dlVars>>
    /\ media_type' = mt
    /\ server_pages' = sizes
    /\ IF MediaName(mt) = "invalid"
       THEN /\ enum_pc' = "raised"
            /\ enum_result' = [tag |-> "raised", error |-> "ValueError"]
            /\ UNCHANGED <<response, response_appended, total_number_of_media,
                           raw_media_list, get_count>>
       ELSE LET first == ServerResponse(total, sizes, 1) IN
            /\ response' = first
            /\ response_appended' = FALSE
            /\ get_count' = 1
            /\ total_number_of_media' = first.media_count
            /\ raw_media_list' = <<>>
            /\ IF LoopCondition(<<>>, first.media_count)
               THEN enum_pc' = "while" /\ enum_result' = None
               ELSE enum_pc' = "done" /\ enum_result' = [tag |-> "ok", value |-> <<>>]

\* lines 116-121 and the next evaluation of line 115: one pass of the loop body
GetAllMediaIterate ==
    /\ enum_pc = "while"
    /\ LET appended == raw_media_list \o response.media
           has_next == "next_page" \in DOMAIN response
       IN /\ raw_media_list' = appended
          /\ IF has_next
             THEN /\ response' = ServerResponse(total_number_of_media,
                                                server_pages, response.next_page)
                  /\ response_appended' = FALSE
                  /\ get_count' = get_count + 1
             ELSE /\ response_appended' = TRUE
                  /\ UNCHANGED <<response, get_count>>
          /\ IF LoopCondition(appended, total_number_of_media)
             THEN enum_pc' = "while" /\ enum_result' = None
             ELSE enum_pc' = "done" /\ enum_result' = [tag |-> "ok", value |-> appended]
    /\ UNCHANGED <<media_type, server_pages, total_number_of_media>>
    /\ UNCHANGED <<clientVars, sceneVars, dlVars>>

\* The call has returned or raised to its caller.
GetAllMediaReturn ==
    /\ enum_pc \in {"done", "raised"}
    /\ enum_pc' = "idle"
    /\ media_type' = "none"
    /\ server_pages' = <<>>
    /\ response' = None
    /\ response_appended' = FALSE
    /\ total_number_of_media' = 0
    /\ raw_media_list' = <<>>
    /\ get_count' = 0
    /\ enum_result' = None
    /\ UNCHANGED <<clientVars, sceneVars, dlVars>>

PageSizes == UNION {[1..k -> 0..MaxPageSize] : k \in 1..MaxPages}

EnumNext ==
    \/ /\ Idle
       /\ \E mt \in MediaTypes, total \in 0..MaxTotal, sizes \in PageSizes :
             GetAllMediaCall(mt, total, sizes)
    \/ GetAllMediaIterate
    \/ GetAllMediaReturn

(* ================= Label Mapper and client construction =============== *)
LabelNames == {"cat", "dog", "bird"}
LabelIds == 1..MaxProjectLabels

SeqsUpTo(S, n) == UNION {[1..k -> S] : k \in 0..n}
Range(s) == {s[i] : i \in DOMAIN s}

\* project.pipeline.label_id_to_name_mapping: a dict, here its items in
\* insertion order; the ids (keys) are distinct, the names need not be.
ProjectLabelMappings ==
    {m \in SeqsUpTo(LabelIds \X LabelNames, MaxProjectLabels) :
        \A i, j \in DOMAIN m : i # j => m[i][1] # m[j][1]}

ProjectNames(m) == {m[i][2] : i \in DOMAIN m}

\* lines 136-138: the dict comprehension; a later item replaces an earlier one
\* of the same name.
InvertMapping(m) ==
    [n \in ProjectNames(m) |->
        LET last == CHOOSE i \in DOMAIN m :
                        /\ m[i][2] = n
                        /\ \A j \in DOMAIN m : m[j][2] = n => j <= i
        IN m[last][1]]

\* lines 139-144: the first source label that is no key of the mapping, None
\* when the loop ends without raising.
RECURSIVE FirstUnmapped(_, _)
FirstUnmapped(source_label_names, name_to_id) ==
    IF source_label_names = <<>> THEN None
    ELSE IF Head(source_label_names) \notin DOMAIN name_to_id
         THEN [tag |-> "label", name |-> Head(source_label_names)]
         ELSE FirstUnmapped(Tail(source_label_names), name_to_id)

GetLabelMappingUnchecked(reader, proj) ==
    [tag |-> "ok", value |-> InvertMapping(proj.label_id_to_name_mapping)]

\* lines 126-145: __get_label_mapping
GetLabelMapping(reader, proj) ==
    LET source_label_names == reader.label_names
        project_label_name_to_id_mapping ==
            InvertMapping(proj.label_id_to_name_mapping)
        missing == FirstUnmapped(source_label_names,
                                 project_label_name_to_id_mapping)
    IN IF missing # None
       THEN [tag |-> "raised", error |-> "ValueError", label |-> missing.name]
       ELSE [tag |-> "ok", value |-> project_label_name_to_id_mapping]

ClientInit ==
    /\ client_pc = "new"
    /\ annotation_reader = None
    /\ project = [label_id_to_name_mapping |-> <<>>]
    /\ label_mapping_cache = None
    /\ label_names_reads = 0
    /\ label_result = None

\* lines 52-70: __init__
Construct(reader, proj) ==
    /\ client_pc = "new"
    /\ UNCHANGED <<enumVars, sceneVars, dlVars>>
    /\ annotation_reader' = reader
    /\ project' = proj
    /\ IF reader = None
       THEN /\ label_mapping_cache' = None
            /\ client_pc' = "ready"
            /\ label_result' = None
            /\ UNCHANGED label_names_reads
       ELSE LET r == GetLabelMapping(reader, proj) IN
            /\ label_names_reads' = label_names_reads + 1
            /\ label_result' = r
            /\ IF r.tag = "ok"
               THEN label_mapping_cache' = r /\ client_pc' = "ready"
               ELSE label_mapping_cache' = None /\ client_pc' = "raised"

LabelMappingAccessUncached ==
    /\ client_pc = "ready"
    /\ Idle
    /\ UNCHANGED <<enumVars, sceneVars, dlVars>>
    /\ IF annotation_reader # None
       THEN LET r == GetLabelMapping(annotation_reader, project) IN
            /\ label_names_reads' = label_names_reads + 1
            /\ label_result' = r
            /\ label_mapping_cache' = IF r.tag = "ok" THEN r ELSE None
       ELSE /\ label_result' = [tag |-> "raised", error |-> "ValueError",
                                label |-> "no annotation reader"]
            /\ UNCHANGED <<label_names_reads, label_mapping_cache>>
    /\ UNCHANGED <<client_pc, annotation_reader, project>>

\* lines 147-162: the label_mapping property
LabelMappingAccess ==
    /\ client_pc = "ready"
    /\ Idle
    /\ UNCHANGED <<enumVars, sceneVars, dlVars>>
    /\ IF annotation_reader # None
       THEN IF label_mapping_cache = None
            THEN LET r == GetLabelMapping(annotation_reader, project) IN
                 /\ label_names_reads' = label_names_reads + 1
                 /\ label_result' = r
                 /\ label_mapping_cache' = IF r.tag = "ok" THEN r ELSE None
            ELSE /\ label_result' = label_mapping_cache
                 /\ UNCHANGED <<label_names_reads, label_mapping_cache>>
       ELSE /\ label_result' = [tag |-> "raised", error |-> "ValueError",
                                label |-> "no annotation reader"]
            /\ UNCHANGED <<label_names_reads, label_mapping_cache>>
    /\ UNCHANGED <<client_pc, annotation_reader, project>>

Readers == {None} \cup {[label_names |-> s] : s \in SeqsUpTo(LabelNames, MaxSourceLabels)}
Projects == {[label_id_to_name_mapping |-> m] : m \in ProjectLabelMappings}

ClientNext ==
    \/ \E reader \in Readers, proj \in Projects : Construct(reader, proj)
    \/ LabelMappingAccess

(* ============== Scene Fetcher and Scene Uploader ====================== *)
Versions == {"sc_mvp", "sc_1_1", "geti_1_0"}
Annotations == {"a1", "a2"}
Kinds == {"annotation", "prediction"}
StatusCodes == {204, 404, 403, 500}

\* The two media items the calls are made on.
SceneMediaItems ==
    { [type |-> "Image", name |-> "cat.png", identifier |-> "image:abc",
       base_url |-> "images/abc"],
      [type |-> "VideoFrame", name |-> "clip_frame_7", identifier |-> "frame:3:7",
       base_url |-> "videos/3/frames/7"] }

AnnotationLists == SeqsUpTo(Annotations, MaxAnnotations)

\* lines 207, 236, 275: self.session.version.is_sc_mvp or ...is_sc_1_1
IsLegacy(ver) == ver \in {"sc_mvp", "sc_1_1"}

\* The format of the dicts the platform of this version sends and expects.
ServerFormat(ver) == IF IsLegacy(ver) THEN "normalized" ELSE "generic"

Scene(identifier, annotations, kind) ==
    [media_identifier |-> identifier, annotations |-> annotations,
     kind |-> kind, prepared |-> FALSE]

\* AnnotationScene.has_data
HasData(scene) == scene.annotations # <<>>
\* AnnotationScene.extend
Extend(scene, annotations) ==
    [scene EXCEPT !.annotations = scene.annotations \o annotations]
\* AnnotationScene.apply_identifier
ApplyIdentifier(scene, identifier) ==
    [scene EXCEPT !.media_identifier = identifier]
\* AnnotationScene.prepare_for_post
PrepareForPost(scene) == [scene EXCEPT !.prepared = TRUE]

\* A converter reading a dict of the other format misreads its shapes.
ReadAnnotations(d, fmt) ==
    IF d.fmt = fmt THEN d.annotations
    ELSE [i \in DOMAIN d.annotations |-> <<"misread", d.annotations[i]>>]

\* AnnotationRESTConverter.to_dict / from_dict
ToDict(scene) ==
    [fmt |-> "generic", kind |-> scene.kind, annotations |-> scene.annotations,
     media_identifier |-> scene.media_identifier, id |-> "",
     annotation_state_per_task |-> <<>>]
FromDict(d) ==
    Scene(d.media_identifier, ReadAnnotations(d, "generic"), d.kind)
\* NormalizedAnnotationRESTConverter.to_normalized_dict /
\* normalized_annotation_scene_from_dict
ToNormalizedDict(scene) == [ToDict(scene) EXCEPT !.fmt = "normalized"]
NormalizedFromDict(d) ==
    Scene(d.media_identifier, ReadAnnotations(d, "normalized"), d.kind)

\* dict.pop(key, None)
DictPop(d, key) == [k \in (DOMAIN d) \ {key} |-> d[k]]

\* A call's effects: requests issued, converters used, reader calls, the
\* scene built, the result.
Effects(reqs, convs, reads, scene, result) ==
    [requests |-> reqs, converters |-> convs, reader_calls |-> reads,
     scene |-> scene, result |-> result]

Ok(value) == [tag |-> "ok", value |-> value]
Raised(error, status) == [tag |-> "raised", error |-> error, status |-> status]

\* What the platform answers to GET .../annotations/latest: a request
\* exception with a status code, or the dict of the latest scene.
LatestOutcomes(m, ver) ==
    {[tag |-> "exception", status |-> c] : c \in StatusCodes}
    \cup {[tag |-> "response",
           dict |-> [ToDict(Scene(m.identifier, a, k))
                       EXCEPT !.fmt = ServerFormat(ver), !.id = "latest"]] :
            a \in AnnotationLists, k \in Kinds}

IsAbsentStatusOnly404(code) == code \in {404}

\* line 311
IsAbsentStatus(code) == code \in {204, 404}

\* lines 224-246: annotation_scene_from_rest_response
SceneFromRestResponse(response_dict, ver) ==
    IF IsLegacy(ver)
    THEN [converter |-> "normalized_annotation_scene_from_dict",
          scene |-> NormalizedFromDict(response_dict)]
    ELSE [converter |-> "from_dict", scene |-> FromDict(response_dict)]

GetLatestAnnotationSwallow(m, ver, outcome) ==
    LET get == [method |-> "GET", url |-> <<m.base_url, "annotations/latest">>]
    IN IF outcome.tag = "exception"
       THEN Effects(<<get>>, <<>>, <<>>, None, None)
       ELSE LET conv == SceneFromRestResponse(outcome.dict, ver)
            IN Effects(<<get>>, <<conv.converter>>, <<>>, None, Ok(conv.scene))

\* lines 296-317: _get_latest_annotation_for_2d_media_item
GetLatestAnnotation(m, ver, outcome) ==
    LET get == [method |-> "GET", url |-> <<m.base_url, "annotations/latest">>]
    IN IF outcome.tag = "exception"
       THEN IF IsAbsentStatus(outcome.status)
            THEN Effects(<<get>>, <<>>, <<>>, None, None)
            ELSE Effects(<<get>>, <<>>, <<>>, None,
                         Raised("GetiRequestException", outcome.status))
       ELSE LET conv == SceneFromRestResponse(outcome.dict, ver)
            IN Effects(<<get>>, <<conv.converter>>, <<>>, None, Ok(conv.scene))

\* lines 319-344: _read_2d_media_annotation_from_source, for a client with a
\* reader; annotation_list is what the reader's get_data returns.
ReadAnnotationFromSource(m, mapping, annotation_list, preserve) ==
    Effects(<<>>, <<"from_dict">>,
            <<[filename |-> m.name, label_name_to_id_mapping |-> mapping,
               preserve_shape_for_global_labels |-> preserve]>>,
            FromDict([ToDict(Scene(m.identifier, annotation_list, "annotation"))
                        EXCEPT !.id = None]),
            None)

\* lines 207-217 / 275-285: the version-gated serialization
Serialize(scene, ver) ==
    IF IsLegacy(ver)
    THEN [converter |-> "to_normalized_dict", dict |-> ToNormalizedDict(scene)]
    ELSE [converter |-> "to_dict", dict |-> ToDict(scene)]

PostRequest(m, rest_data) ==
    [method |-> "POST", url |-> <<m.base_url, "annotations">>, data |-> rest_data]

\* What the platform answers to the POST: the stored scene, in its format.
PostResponse(rest_data, ver) ==
    [fmt |-> ServerFormat(ver), kind |-> "annotation",
     annotations |-> rest_data.annotations,
     media_identifier |-> rest_data.media_identifier, id |-> "new",
     annotation_state_per_task |-> <<>>]

UploadSceneUnguarded(m, ver, scene, post_status) ==
    LET ser == Serialize(PrepareForPost(scene), ver)
    IN Effects(<<PostRequest(m, DictPop(ser.dict, "kind"))>>, <<ser.converter>>,
               <<>>, PrepareForPost(scene), Ok(PrepareForPost(scene)))

\* lines 205-222: the upload of scene_to_upload
UploadScene(m, ver, scene, post_status) ==
    IF HasData(scene)
    THEN LET prepared == PrepareForPost(scene)
             ser == Serialize(prepared, ver)
             rest_data == DictPop(ser.dict, "kind")
         IN Effects(<<PostRequest(m, rest_data)>>, <<ser.converter>>, <<>>,
                    prepared,
                    IF post_status = 200 THEN Ok(prepared)
                    ELSE Raised("GetiRequestException", post_status))
    ELSE Effects(<<>>, <<>>, <<>>, scene, Ok(scene))

\* The effects of step a followed by step b, whose result stands.
Then(a, b) ==
    Effects(a.requests \o b.requests, a.converters \o b.converters,
            a.reader_calls \o b.reader_calls, b.scene, b.result)

\* lines 147-162 as used by get_data's argument: the cached mapping
CachedMapping == label_mapping_cache

UploadAnnotationUnstamped(m, ver, annotation_scene, annotation_list, post_status) ==
    IF annotation_scene # None
    THEN UploadScene(m, ver, annotation_scene, post_status)
    ELSE IF annotation_reader # None
         THEN LET read == ReadAnnotationFromSource(m, CachedMapping,
                                                   annotation_list, FALSE)
              IN Then(read, UploadScene(m, ver, read.scene, post_status))
         ELSE Effects(<<>>, <<>>, <<>>, None, Raised("ValueError", 0))

\* lines 189-222: _upload_annotation_for_2d_media_item
UploadAnnotation(m, ver, annotation_scene, annotation_list, post_status) ==
    IF annotation_scene # None
    THEN UploadScene(m, ver, ApplyIdentifier(annotation_scene, m.identifier),
                     post_status)
    ELSE IF annotation_reader # None
         THEN LET read == ReadAnnotationFromSource(m, CachedMapping,
                                                   annotation_list, FALSE)
              IN Then(read, UploadScene(m, ver, read.scene, post_status))
         ELSE Effects(<<>>, <<>>, <<>>, None, Raised("ValueError", 0))

MergeAnnotationsSwapped(annotation_scene, new_annotation_scene) ==
    Extend(new_annotation_scene, annotation_scene.annotations)

\* line 272
MergeAnnotations(annotation_scene, new_annotation_scene) ==
    Extend(annotation_scene, new_annotation_scene.annotations)

\* lines 274-294: the upload of the merged scene
AppendUpload(m, ver, merged, post_status) ==
    IF HasData(merged)
    THEN LET ser == Serialize(merged, ver)
             rest_data == DictPop(DictPop(DictPop(ser.dict, "kind"),
                                          "annotation_state_per_task"), "id")
         IN Effects(<<PostRequest(m, rest_data)>>,
                    IF post_status = 200 THEN <<ser.converter, "from_dict">>
                    ELSE <<ser.converter>>,
                    <<>>, merged,
                    IF post_status = 200
                    THEN Ok(FromDict(PostResponse(rest_data, ver)))
                    ELSE Raised("GetiRequestException", post_status))
    ELSE Effects(<<>>, <<>>, <<>>, merged, Ok(merged))

\* lines 248-294: _append_annotation_for_2d_media_item
AppendAnnotation(m, ver, annotation_list, outcome, post_status) ==
    IF annotation_reader = None
    THEN Effects(<<>>, <<>>, <<>>, None, Raised("AttributeError", 0))
    ELSE LET read == ReadAnnotationFromSource(m, CachedMapping,
                                              annotation_list, TRUE)
             latest == GetLatestAnnotation(m, ver, outcome)
             fetched == Then(read, latest)
         IN IF latest.result.tag = "raised"
            THEN fetched
            ELSE LET annotation_scene ==
                         IF latest.result = None
                         THEN Scene(m.identifier, <<>>, "annotation")
                         ELSE latest.result.value
                     merged == MergeAnnotations(annotation_scene, read.scene)
                 IN Then(fetched, AppendUpload(m, ver, merged, post_status))

SceneInit ==
    /\ version \in Versions
    /\ call = [op |-> "none"]
    /\ requests = <<>>
    /\ reader_calls = <<>>
    /\ converters = <<>>
    /\ scene_to_upload = None
    /\ scene_result = None

Perform(effects) ==
    /\ requests' = effects.requests
    /\ reader_calls' = effects.reader_calls
    /\ converters' = effects.converters
    /\ scene_to_upload' = effects.scene
    /\ scene_result' = effects.result
    /\ UNCHANGED version
    /\ UNCHANGED <<enumVars, clientVars, dlVars>>

\* Scenes a caller may pass to replace.
SuppliedScenes ==
    {Scene(i, a, k) : i \in {"image:other"}, a \in AnnotationLists, k \in Kinds}

ReplaceCall(m, annotation_scene, annotation_list, post_status) ==
    /\ client_pc = "ready"
    /\ Idle
    /\ call' = [op |-> "replace", media_item |-> m,
                annotation_scene |-> annotation_scene,
                annotation_list |-> annotation_list, post_status |-> post_status]
    /\ Perform(UploadAnnotation(m, version, annotation_scene, annotation_list,
                                post_status))

AppendCall(m, annotation_list, outcome, post_status) ==
    /\ client_pc = "ready"
    /\ Idle
    /\ call' = [op |-> "append", media_item |-> m,
                annotation_list |-> annotation_list, latest |-> outcome,
                post_status |-> post_status]
    /\ Perform(AppendAnnotation(m, version, annotation_list, outcome, post_status))

GetLatestCall(m, outcome) ==
    /\ client_pc = "ready"
    /\ Idle
    /\ call' = [op |-> "get_latest", media_item |-> m, latest |-> outcome]
    /\ Perform(GetLatestAnnotation(m, version, outcome))

\* The call has returned or raised to its caller; the client is idle again.
SceneReturn ==
    /\ call.op # "none"
    /\ call' = [op |-> "none"]
    /\ Perform(Effects(<<>>, <<>>, <<>>, None, None))

PostStatuses == {200, 500}

SceneNext ==
    \/ /\ Idle
       /\ \E m \in SceneMediaItems, s \in SuppliedScenes \cup {None},
             a \in AnnotationLists, ps \in PostStatuses :
             ReplaceCall(m, s, a, ps)
    \/ /\ Idle
       /\ \E m \in SceneMediaItems, a \in AnnotationLists, ps \in PostStatuses :
             \E o \in LatestOutcomes(m, version) : AppendCall(m, a, o, ps)
    \/ /\ Idle
       /\ \E m \in SceneMediaItems :
             \E o \in LatestOutcomes(m, version) : GetLatestCall(m, o)
    \/ SceneReturn

\* A client as __init__ leaves it, for the calls above: without a reader, or
\* with a reader whose labels the project has.
ConstructedClient ==
    \E reader \in {None, [label_names |-> <<"cat">>]} :
      LET proj == [label_id_to_name_mapping |-> <<<<1, "cat">>, <<2, "dog">>>>] IN
        /\ client_pc = "ready"
        /\ annotation_reader = reader
        /\ project = proj
        /\ label_mapping_cache =
              IF reader = None THEN None ELSE GetLabelMapping(reader, proj)
        /\ label_names_reads = IF reader = None THEN 0 ELSE 1
        /\ label_result = label_mapping_cache

(* ========================= Bulk Downloader ============================ *)
\* Strings the code takes apart or builds are sequences of characters.
Str(value) == [tag |-> "str", value |-> value]

Digits == <<"0", "1", "2", "3", "4", "5", "6", "7", "8", "9">>
IsDigit(c) == \E d \in DOMAIN Digits : Digits[d] = c

\* str(n) of a non-negative int, as an f-string formats it
RECURSIVE IntToStr(_)
IntToStr(n) == IF n < 10 THEN <<Digits[n + 1]>>
               ELSE IntToStr(n \div 10) \o <<Digits[(n % 10) + 1]>>

\* sep occurs in s at position i
OccursAt(s, sep, i) ==
    /\ i + Len(sep) - 1 <= Len(s)
    /\ SubSeq(s, i, i + Len(sep) - 1) = sep

\* s.split(sep)[0]: s up to the first occurrence of sep, all of s without one
RECURSIVE SplitFirstFrom(_, _, _)
SplitFirstFrom(s, sep, i) ==
    IF i > Len(s) THEN s
    ELSE IF OccursAt(s, sep, i) THEN SubSeq(s, 1, i - 1)
    ELSE SplitFirstFrom(s, sep, i + 1)
SplitFirst(s, sep) == SplitFirstFrom(s, sep, 1)

\* os.path.basename(s): what follows the last "/"
RECURSIVE Basename(_)
Basename(s) ==
    IF \E i \in DOMAIN s : s[i] = "/"
    THEN Basename(Tail(s))
    ELSE s

FRAME == <<"_", "f", "r", "a", "m", "e", "_">>
JSON == <<".", "j", "s", "o", "n">>

ImageItem(name, id) ==
    [type |-> "Image", name |-> name, id |-> id, identifier |-> <<"image", id>>,
     base_url |-> <<"images", id>>]
VideoFrameItem(name, video_name, video_id, frame_index) ==
    [type |-> "VideoFrame", name |-> name, video_name |-> video_name,
     video_id |-> video_id, frame_index |-> frame_index,
     identifier |-> <<"video_frame", video_id, frame_index>>,
     base_url |-> <<"videos", video_id, "frames", frame_index>>]
VideoItem(name, id) ==
    [type |-> "Video", name |-> name, id |-> id, identifier |-> <<"video", id>>,
     base_url |-> <<"videos", id>>]

ImageCat == ImageItem(<<"c", "a", "t", ".", "p", "n", "g">>, <<"a", "b", "c">>)
ImageDirCat == ImageItem(<<"d", "i", "r", "/", "c", "a", "t", ".", "p", "n", "g">>, <<"a", "b", "d">>)
FrameClip7 == VideoFrameItem(<<"c", "l", "i", "p", "_", "f", "r", "a", "m", "e", "_", "7">>, None, <<"3">>, 7)
FrameClip7Other == VideoFrameItem(<<"c", "l", "i", "p", "_", "f", "r", "a", "m", "e", "_", "7">>, None, <<"5">>, 7)
FrameNamed12 == VideoFrameItem(<<"c", "l", "i", "p", "_", "f", "r", "a", "m", "e", "_", "1", "2">>, Str(<<"v", "i", "d", "e", "o", "s", "/", "c", "l", "i", "p">>), <<"3">>, 12)
FrameTwice2 == VideoFrameItem(<<"a", "_", "f", "r", "a", "m", "e", "_", "1", "_", "f", "r", "a", "m", "e", "_", "2">>, None, <<"4">>, 2)
VideoClip == VideoItem(<<"c", "l", "i", "p", ".", "m", "p", "4">>, <<"3">>)

ItemsOfType(t) ==
    IF t = "Image" THEN {ImageCat, ImageDirCat}
    ELSE IF t = "VideoFrame"
    THEN {FrameClip7, FrameClip7Other, FrameNamed12, FrameTwice2}
    ELSE {VideoClip}

MediaLists ==
    {[media_type |-> t, items |-> items] :
        t \in {"Image"}, items \in SeqsUpTo(ItemsOfType("Image"), MaxItems)}
    \cup {[media_type |-> t, items |-> items] :
        t \in {"VideoFrame"}, items \in SeqsUpTo(ItemsOfType("VideoFrame"), MaxItems)}
    \cup {[media_type |-> t, items |-> items] :
        t \in {"Video"}, items \in SeqsUpTo(ItemsOfType("Video"), 1)}

\* What the platform answers to the latest-annotation GET of the download.
DownloadOutcomes(m, ver) ==
    {o \in LatestOutcomes(m, ver) :
        /\ o.tag = "exception" => o.status \in {204, 404, 500}
        /\ o.tag = "response" => o.dict.annotations \in {<<>>, <<"a1">>}}

FilenameWithoutIndex(media_item, uid) ==
    LET base_media_item_name == Basename(media_item.name) IN
    IF ~uid THEN Ok(base_media_item_name \o JSON)
    ELSE IF media_item.type = "Image"
    THEN Ok(base_media_item_name \o <<"_">> \o media_item.id \o JSON)
    ELSE Ok(SplitFirst(base_media_item_name, FRAME) \o <<"_">>
            \o media_item.video_id \o JSON)

\* lines 411-434: the filename of a media item's annotation file
Filename(media_item, uid) ==
    LET base_media_item_name == Basename(media_item.name) IN
    IF ~uid THEN Ok(base_media_item_name \o JSON)
    ELSE IF media_item.type = "Image"
    THEN Ok(base_media_item_name \o <<"_">> \o media_item.id \o JSON)
    ELSE IF media_item.type = "VideoFrame"
    THEN IF media_item.video_name # None
         THEN Ok(Basename(media_item.video_name.value) \o <<"_">>
                 \o media_item.video_id \o FRAME
                 \o IntToStr(media_item.frame_index) \o JSON)
         ELSE LET video_name == SplitFirst(base_media_item_name, FRAME)
              IN Ok(video_name \o <<"_">> \o media_item.video_id \o FRAME
                    \o IntToStr(media_item.frame_index) \o JSON)
    ELSE Raised("TypeError", 0)

IsSkippedAbsentOnly(latest) == latest.result = None

\* lines 392-408: the item is skipped
IsSkipped(latest) ==
    \/ latest.result = None
    \/ latest.result.value.kind # "annotation"

\* open(path, "w") and json.dump: the file is created or overwritten
WriteFile(d, filename, content) ==
    [f \in (DOMAIN d) \cup {filename} |-> IF f = filename THEN content ELSE d[f]]

DownloadInit ==
    /\ dl_pc = "idle"
    /\ media_list = [media_type |-> "Image", items |-> <<>>]
    /\ append_media_uid = FALSE
    /\ folder_created = FALSE
    /\ index = 0
    /\ download_count = 0
    /\ skip_count = 0
    /\ fetch_count = 0
    /\ outcomes = <<>>
    /\ disk = <<>>
    /\ writes = <<>>
    /\ dl_result = None

\* lines 364-386: the call up to the for loop; the target folder is empty
DownloadCall(ml, uid) ==
    /\ client_pc = "ready"
    /\ Idle
    /\ UNCHANGED <<enumVars, clientVars, sceneVars>>
    /\ media_list' = ml
    /\ append_media_uid' = uid
    /\ folder_created' = TRUE
    /\ IF ml.media_type \in {"Image", "VideoFrame"}
       THEN dl_pc' = "loop" /\ dl_result' = None
       ELSE dl_pc' = "raised" /\ dl_result' = Raised("ValueError", 0)
    /\ UNCHANGED <<index, download_count, skip_count, fetch_count, outcomes,
                   disk, writes>>

\* lines 388-440: one pass of the for loop
DownloadItem(outcome) ==
    /\ dl_pc = "loop"
    /\ index < Len(media_list.items)
    /\ LET media_item == media_list.items[index + 1]
           latest == GetLatestAnnotation(media_item, version, outcome)
       IN /\ fetch_count' = fetch_count + 1
          /\ outcomes' = Append(outcomes, outcome)
          /\ IF latest.result.tag = "raised"
             THEN /\ dl_pc' = "raised"
                  /\ dl_result' = latest.result
                  /\ UNCHANGED <<index, download_count, skip_count, disk, writes>>
             ELSE IF IsSkipped(latest)
             THEN /\ skip_count' = skip_count + 1
                  /\ index' = index + 1
                  /\ UNCHANGED <<dl_pc, dl_result, download_count, disk, writes>>
             ELSE LET export_data == ToDict(latest.result.value)
                      filename == Filename(media_item, append_media_uid)
                  IN IF filename.tag = "raised"
                     THEN /\ dl_pc' = "raised"
                          /\ dl_result' = filename
                          /\ UNCHANGED <<index, download_count, skip_count,
                                         disk, writes>>
                     ELSE /\ disk' = WriteFile(disk, filename.value, export_data)
                          /\ writes' = Append(writes, [index |-> index + 1,
                                                       filename |-> filename.value])
                          /\ download_count' = download_count + 1
                          /\ index' = index + 1
                          /\ UNCHANGED <<dl_pc, dl_result, skip_count>>
    /\ UNCHANGED <<media_list, append_media_uid, folder_created>>
    /\ UNCHANGED <<enumVars, clientVars, sceneVars>>

\* lines 441-456: after the loop
DownloadFinish ==
    /\ dl_pc = "loop"
    /\ index = Len(media_list.items)
    /\ dl_pc' = "done"
    /\ dl_result' = Ok("t_elapsed")
    /\ UNCHANGED <<media_list, append_media_uid, folder_created, index,
                   download_count, skip_count, fetch_count, outcomes, disk, writes>>
    /\ UNCHANGED <<enumVars, clientVars, sceneVars>>

\* The call has returned or raised to its caller; the next call is given
\* another, empty target folder.
DownloadReturn ==
    /\ dl_pc \in {"done", "raised"}
    /\ dl_pc' = "idle"
    /\ media_list' = [media_type |-> "Image", items |-> <<>>]
    /\ append_media_uid' = FALSE
    /\ folder_created' = FALSE
    /\ index' = 0
    /\ download_count' = 0
    /\ skip_count' = 0
    /\ fetch_count' = 0
    /\ outcomes' = <<>>
    /\ disk' = <<>>
    /\ writes' = <<>>
    /\ dl_result' = None
    /\ UNCHANGED <<enumVars, clientVars, sceneVars>>

DownloadNext ==
    \/ /\ Idle
       /\ \E ml \in MediaLists, uid \in BOOLEAN : DownloadCall(ml, uid)
    \/ /\ index < Len(media_list.items)
       /\ \E o \in DownloadOutcomes(media_list.items[index + 1], version) :
             DownloadItem(o)
    \/ DownloadFinish
    \/ DownloadReturn

(* ========================= specifications ============================= *)
\* Before the constructor has run: the start of the constructor's own check.
Init == EnumInit /\ ClientInit /\ SceneInit /\ DownloadInit
\* The state after construction, from which the client's calls are made.
InitConstructed == EnumInit /\ ConstructedClient /\ SceneInit /\ DownloadInit

SpecEnum == Init /\ [][EnumNext]_vars
SpecClient == Init /\ [][ClientNext]_vars
SpecScene == InitConstructed /\ [][SceneNext]_vars
SpecDownload == InitConstructed /\ [][DownloadNext]_vars

\* The constructor, for a few readers over one project, followed by
\* label_mapping accesses and replace / append / getLatestScene calls.
SampleReaders ==
    {None, [label_names |-> <<"cat">>], [label_names |-> <<"dog", "cat">>],
     [label_names |-> <<"bird">>]}
SampleProjects == {[label_id_to_name_mapping |-> <<<<1, "cat">>, <<2, "dog">>>>]}
\* Media enumeration and bulk download, the two calls that take a media type.
MediaTypeNext == EnumNext \/ DownloadNext
SpecMediaType == InitConstructed /\ [][MediaTypeNext]_vars

CacheNext ==
    \/ \E reader \in SampleReaders, proj \in SampleProjects :
          Construct(reader, proj)
    \/ LabelMappingAccess
    \/ SceneNext
SpecCache == Init /\ [][CacheNext]_vars

Next == \/ EnumNext
        \/ LabelMappingAccess
        \/ SceneNext
        \/ DownloadNext
Spec == InitConstructed /\ [][Next]_vars

(* ======================= claims: Media Enumerator ===================== *)

\* The server is consistent: its pages hold exactly the declared total.
ServerConsistent == SumSeq(server_pages) = total_number_of_media

\* C1 (as stated): whatever pages the server returns, the enumeration returns
\* exactly the declared total of items, each server item once, in server order.
C1_ReturnsDeclaredTotalAlways ==
    enum_pc = "done" =>
        /\ Len(enum_result.value) = total_number_of_media
        /\ enum_result.value = AllServerMedia(server_pages)

\* C1 (amended): when the server's pages together hold exactly the declared
\* total T, the loop never re-reads a page and the enumeration returns exactly
\* T items, each server item once, in the order the pages yielded them, for
\* any number of pages.
C1_ReturnsDeclaredTotal ==
    ServerConsistent =>
        /\ enum_pc = "while" => ~response_appended
        /\ enum_pc = "done" =>
              /\ Len(enum_result.value) = total_number_of_media
              /\ enum_result.value = AllServerMedia(server_pages)

C1_Witness ==
    /\ enum_pc = "done"
    /\ ServerConsistent
    /\ get_count >= 3
    /\ total_number_of_media >= 3
    /\ Len(enum_result.value) = total_number_of_media

\* C2 (as stated): the loop stops once a response without next_page has been
\* appended while the count is below the total, and what it returns is the
\* pages collected so far, none of them added twice.
C2_StopsWithoutNextPage ==
    /\ enum_pc = "while" => ~response_appended
    /\ enum_pc = "done" =>
          \E k \in 0..Len(server_pages) :
              enum_result.value = AllServerMedia(SubSeq(server_pages, 1, k))

(* ========================= claims: Label Mapper ======================= *)

\* C3: label resolution succeeds iff every source label name of the reader is
\* a name of the project; on success the result is the inverted id->name
\* mapping; on failure the error names the first source label, in reader
\* order, that the project lacks, and no mapping is kept.
C3_LabelResolution ==
    (client_pc # "new" /\ annotation_reader # None) =>
        LET src == annotation_reader.label_names
            m == project.label_id_to_name_mapping
            names == ProjectNames(m)
        IN /\ (label_result.tag = "ok") <=> (Range(src) \subseteq names)
           /\ label_result.tag = "ok" =>
                 /\ DOMAIN label_result.value = names
                 /\ \A n \in names :
                       \E i \in DOMAIN m : m[i] = <<label_result.value[n], n>>
           /\ label_result.tag # "ok" =>
                 /\ label_result.tag = "raised"
                 /\ label_mapping_cache = None
                 /\ \E i \in DOMAIN src :
                       /\ src[i] = label_result.label
                       /\ src[i] \notin names
                       /\ \A j \in 1..(i - 1) : src[j] \in names

C3_Witness ==
    /\ client_pc = "raised"
    /\ Len(annotation_reader.label_names) = 2
    /\ annotation_reader.label_names[1] \in ProjectNames(project.label_id_to_name_mapping)
    /\ label_result.label = annotation_reader.label_names[2]

(* ================ claims: Scene Uploader and Scene Fetcher ============ *)
Posts == {i \in DOMAIN requests : requests[i].method = "POST"}

\* C4: append POSTs the remote scene's annotations followed by the reader's,
\* in that order; with no remote scene (204/404) it POSTs exactly the
\* reader's annotations, in a scene of kind annotation with the media item's
\* identifier. A POST is issued whenever the merged list is not empty.
C4_AppendMerges ==
    (call.op = "append" /\ annotation_reader # None) =>
        LET new == call.annotation_list
            old == IF call.latest.tag = "response"
                   THEN call.latest.dict.annotations ELSE <<>>
            fetched == \/ call.latest.tag = "response"
                       \/ call.latest.status \in {204, 404}
        IN /\ (Posts # {}) <=> (fetched /\ old \o new # <<>>)
           /\ \A i \in Posts :
                /\ requests[i].data.annotations = old \o new
                /\ scene_to_upload.annotations = old \o new
                /\ call.latest.tag = "exception" =>
                     /\ scene_to_upload.kind = "annotation"
                     /\ scene_to_upload.media_identifier = call.media_item.identifier
                     /\ requests[i].data.media_identifier = call.media_item.identifier

C4_Witness ==
    /\ call.op = "append"
    /\ call.latest.tag = "response"
    /\ call.latest.dict.annotations = <<"a1", "a2">>
    /\ call.annotation_list = <<"a2", "a1">>
    /\ Posts # {}

\* C5: no replace or append call POSTs an empty scene; a call whose resulting
\* or merged scene is empty issues no POST and returns that scene.
C5_EmptySceneNeverSent ==
    call.op \in {"replace", "append"} =>
        /\ \A i \in Posts :
              /\ requests[i].data.annotations # <<>>
              /\ HasData(scene_to_upload)
        /\ (scene_to_upload # None /\ ~HasData(scene_to_upload)) =>
              /\ Posts = {}
              /\ scene_result = Ok(scene_to_upload)

C5_Witness ==
    /\ call.op = "append"
    /\ call.latest.tag = "response"
    /\ scene_to_upload # None
    /\ ~HasData(scene_to_upload)
    /\ Posts = {}
    /\ scene_result = Ok(scene_to_upload)

\* C6: getLatestScene returns None exactly when the transport raises a
\* request exception with status 204 or 404; an exception with another
\* status is raised again with that status; a response is never made None.
C6_AbsentOn204And404 ==
    call.op = "get_latest" =>
        LET o == call.latest IN
        /\ (scene_result = None) <=> (o.tag = "exception" /\ o.status \in {204, 404})
        /\ (o.tag = "exception" /\ o.status \notin {204, 404}) =>
              scene_result = Raised("GetiRequestException", o.status)
        /\ o.tag = "response" => scene_result.tag = "ok"

C6_Witness ==
    /\ call.op = "get_latest"
    /\ call.latest.tag = "exception"
    /\ call.latest.status = 204
    /\ scene_result = None
\* C11: replace without a scene on a client without annotation reader raises
\* the no-annotation-source error and issues no request; with a scene
\* supplied the reader is not consulted, and the scene POSTed and returned is
\* the supplied scene with the media item's identifier.
C11_ReplaceSource ==
    call.op = "replace" =>
        /\ (call.annotation_scene = None /\ annotation_reader = None) =>
              /\ scene_result = Raised("ValueError", 0)
              /\ requests = <<>>
              /\ reader_calls = <<>>
        /\ call.annotation_scene # None =>
              /\ reader_calls = <<>>
              /\ scene_to_upload.media_identifier = call.media_item.identifier
              /\ scene_to_upload.annotations = call.annotation_scene.annotations
              /\ scene_to_upload.kind = call.annotation_scene.kind
              /\ \A i \in Posts :
                    /\ requests[i].data.media_identifier
                          = call.media_item.identifier
                    /\ requests[i].data.annotations
                          = call.annotation_scene.annotations
              /\ scene_result.tag = "ok" => scene_result.value = scene_to_upload
              /\ (scene_result.tag = "ok")
                    <=> (Posts = {} \/ call.post_status = 200)

C11_Witness ==
    /\ call.op = "replace"
    /\ annotation_reader # None
    /\ call.annotation_scene # None
    /\ call.annotation_scene.media_identifier # call.media_item.identifier
    /\ call.annotation_scene.annotations = <<"a1", "a2">>
    /\ Posts # {}
    /\ scene_result = Ok(scene_to_upload)

\* The converters of the platform's format: the legacy normalized ones for
\* sc_mvp and sc_1_1, the generic ones otherwise.
SerializerOfVersion ==
    IF version \in {"sc_mvp", "sc_1_1"} THEN "to_normalized_dict" ELSE "to_dict"
ParserOfVersion ==
    IF version \in {"sc_mvp", "sc_1_1"}
    THEN "normalized_annotation_scene_from_dict" ELSE "from_dict"

\* C12 (as stated): for every platform version, replace serializes, append
\* serializes and parses the POST response, and getLatestScene (also inside
\* append) deserializes with the legacy normalized converter iff the version
\* is sc_mvp or sc_1_1, and with the generic converter otherwise.
C12_NoFormatDrift ==
    LET n == Len(converters) IN
    /\ (call.op = "replace" /\ Posts # {}) =>
          converters[n] = SerializerOfVersion
    /\ (call.op = "get_latest" /\ call.latest.tag = "response") =>
          converters = <<ParserOfVersion>>
    /\ (call.op = "append" /\ Posts # {}) =>
          /\ call.latest.tag = "response" => converters[2] = ParserOfVersion
          /\ IF scene_result.tag = "ok"
             THEN /\ converters[n - 1] = SerializerOfVersion
                  /\ converters[n] = ParserOfVersion
             ELSE converters[n] = SerializerOfVersion

(* ===================== claims: Label Mapping caching ================== *)

\* C13 (as stated): the mapping is computed lazily: the constructor does not
\* read the reader's label names nor fill the cache; the names are read at
\* most once.
C13_LazyAsStated ==
    [][ /\ client_pc = "new" =>
              (label_names_reads' = 0 /\ label_mapping_cache' = None)
        /\ label_names_reads' <= 1 ]_vars

\* C13 (amended): for a client built with an annotation reader the mapping is
\* computed by the constructor, exactly once; over any later sequence of
\* label_mapping accesses and replace / append calls the reader's label names
\* are not read again and every annotation read is given that cached mapping.
\* On a client without a reader nothing is computed and accessing the mapping
\* raises instead of returning a value.
C13_CachedMapping ==
    /\ client_pc = "new" => (label_names_reads = 0 /\ label_mapping_cache = None)
    /\ client_pc = "raised" => (label_names_reads = 1 /\ label_mapping_cache = None)
    /\ (client_pc = "ready" /\ annotation_reader # None) =>
          /\ label_names_reads = 1
          /\ label_mapping_cache.tag = "ok"
          /\ DOMAIN label_mapping_cache.value
                = ProjectNames(project.label_id_to_name_mapping)
          /\ label_result = label_mapping_cache
    /\ (client_pc = "ready" /\ annotation_reader = None) =>
          /\ label_names_reads = 0
          /\ label_mapping_cache = None
          /\ label_result.tag \in {"None", "raised"}
          /\ reader_calls = <<>>
    /\ \A i \in DOMAIN reader_calls :
          reader_calls[i].label_name_to_id_mapping = label_mapping_cache

C13_Witness ==
    /\ client_pc = "ready"
    /\ annotation_reader # None
    /\ call.op = "append"
    /\ Len(reader_calls) = 1
    /\ reader_calls[1].label_name_to_id_mapping = label_mapping_cache
    /\ label_names_reads = 1

(* ===================== claims: media type rejection =================== *)

\* C14: media enumeration with a media type other than Image or Video raises
\* ValueError without issuing any GET; bulk download of a media list whose
\* media type is neither Image nor VideoFrame raises ValueError before any
\* scene is fetched or file written, with and without append_media_uid, the
\* annotations folder having been created already. Valid media types are not
\* rejected.
C14_RejectedBeforeRemoteWork ==
    /\ enum_pc # "idle" =>
          /\ (media_type \notin {"Image", "Video"}) <=> (enum_pc = "raised")
          /\ enum_pc = "raised" =>
                /\ enum_result = [tag |-> "raised", error |-> "ValueError"]
                /\ get_count = 0
                /\ response = None
          /\ enum_pc # "raised" => get_count >= 1
    /\ dl_pc # "idle" =>
          LET invalid == media_list.media_type \notin {"Image", "VideoFrame"} IN
          /\ invalid <=> (dl_result = Raised("ValueError", 0))
          /\ invalid =>
                /\ dl_pc = "raised"
                /\ fetch_count = 0
                /\ outcomes = <<>>
                /\ writes = <<>>
                /\ DOMAIN disk = {}
                /\ folder_created

C14_Witness ==
    /\ dl_pc = "raised"
    /\ media_list.media_type = "Video"
    /\ Len(media_list.items) = 1
    /\ append_media_uid
    /\ folder_created
    /\ fetch_count = 0
    /\ DOMAIN disk = {}

(* ======================== claims: Bulk Downloader ===================== *)
ItemOf(w) == media_list.items[w.index]

\* s without its trailing _frame_<n> suffix (n a decimal number), s itself
\* when it has none.
StripTrailingFrame(s) ==
    LET ends == {i \in DOMAIN s :
                    /\ OccursAt(s, FRAME, i)
                    /\ i + Len(FRAME) <= Len(s)
                    /\ \A j \in (i + Len(FRAME))..Len(s) : IsDigit(s[j])}
    IN IF ends = {} THEN s ELSE SubSeq(s, 1, (CHOOSE i \in ends : TRUE) - 1)

\* s up to its first _frame_, s itself when it has none.
BeforeFirstFrame(s) ==
    LET at == {i \in DOMAIN s : OccursAt(s, FRAME, i)}
    IN IF at = {} THEN s
       ELSE SubSeq(s, 1, (CHOOSE i \in at : \A j \in at : i <= j) - 1)

\* The filename rule, with the base video name of a frame without a parent
\* video name left open.
FilenameRule(item, uid, base_video_name) ==
    IF ~uid THEN Basename(item.name) \o JSON
    ELSE IF item.type = "Image"
    THEN Basename(item.name) \o <<"_">> \o item.id \o JSON
    ELSE (IF item.video_name # None THEN Basename(item.video_name.value)
          ELSE base_video_name)
         \o <<"_">> \o item.video_id \o FRAME \o IntToStr(item.frame_index) \o JSON

\* C7 (as stated): every file written carries the name of the rule, the base
\* video name of a frame without parent video name being its name with the
\* trailing _frame_<n> stripped; clip_frame_7 (video 3, frame 7) gives
\* clip_3_frame_7.json and the image cat.png with id abc gives cat_abc.json.
C7_FilenameAsStated ==
    \A k \in DOMAIN writes :
        LET item == ItemOf(writes[k]) IN
        /\ writes[k].filename =
              FilenameRule(item, append_media_uid,
                           StripTrailingFrame(Basename(item.name)))
        /\ (append_media_uid /\ item = FrameClip7) =>
              writes[k].filename = <<"c", "l", "i", "p", "_", "3", "_", "f", "r", "a", "m", "e", "_", "7", ".", "j", "s", "o", "n">>
        /\ (append_media_uid /\ item = ImageCat) =>
              writes[k].filename = <<"c", "a", "t", "_", "a", "b", "c", ".", "j", "s", "o", "n">>

\* C7 (amended): every file written carries the name of the rule, the base
\* video name of a frame without parent video name being its name up to the
\* first _frame_; clip_frame_7 (video 3, frame 7) gives clip_3_frame_7.json,
\* a_frame_1_frame_2 (video 4, frame 2) gives a_4_frame_2.json and the image
\* cat.png with id abc gives cat.png_abc.json.
C7_Filename ==
    \A k \in DOMAIN writes :
        LET item == ItemOf(writes[k]) IN
        /\ writes[k].filename =
              FilenameRule(item, append_media_uid,
                           BeforeFirstFrame(Basename(item.name)))
        /\ (append_media_uid /\ item = FrameClip7) =>
              writes[k].filename = <<"c", "l", "i", "p", "_", "3", "_", "f", "r", "a", "m", "e", "_", "7", ".", "j", "s", "o", "n">>
        /\ (append_media_uid /\ item = FrameTwice2) =>
              writes[k].filename = <<"a", "_", "4", "_", "f", "r", "a", "m", "e", "_", "2", ".", "j", "s", "o", "n">>
        /\ (append_media_uid /\ item = ImageCat) =>
              writes[k].filename = <<"c", "a", "t", ".", "p", "n", "g", "_", "a", "b", "c", ".", "j", "s", "o", "n">>
        /\ (~append_media_uid /\ item = ImageDirCat) =>
              writes[k].filename = <<"c", "a", "t", ".", "p", "n", "g", ".", "j", "s", "o", "n">>

C7_Witness ==
    /\ append_media_uid
    /\ Len(writes) = 2
    /\ ItemOf(writes[1]) = FrameClip7
    /\ writes[1].filename = <<"c", "l", "i", "p", "_", "3", "_", "f", "r", "a", "m", "e", "_", "7", ".", "j", "s", "o", "n">>
    /\ ItemOf(writes[2]) = FrameNamed12
    /\ writes[2].filename = <<"c", "l", "i", "p", "_", "3", "_", "f", "r", "a", "m", "e", "_", "1", "2", ".", "j", "s", "o", "n">>

\* The platform's answer makes the download skip the item.
AnswerSkips(o) ==
    \/ o.tag = "exception" /\ o.status \in {204, 404}
    \/ o.tag = "response" /\ o.dict.kind # "annotation"

\* C8: after every processed item download_count + skip_count is the number
\* of items processed, so on return it is len(media_list); an item is skipped
\* (nothing written) iff its latest scene is absent or not of kind annotation,
\* otherwise exactly one file is written for it; files are written in list
\* order.
C8_Counts ==
    /\ download_count + skip_count = index
    /\ dl_pc = "done" => download_count + skip_count = Len(media_list.items)
    /\ download_count = Len(writes)
    /\ \A k \in 1..index :
          Cardinality({j \in DOMAIN writes : writes[j].index = k})
              = IF AnswerSkips(outcomes[k]) THEN 0 ELSE 1
    /\ \A i, j \in DOMAIN writes : i < j => writes[i].index < writes[j].index

C8_Witness ==
    /\ dl_pc = "done"
    /\ Len(media_list.items) = 2
    /\ outcomes[1].tag = "response"
    /\ outcomes[1].dict.kind = "prediction"
    /\ skip_count = 1
    /\ download_count = 1

DifferentIdentity(a, b) == a.identifier # b.identifier

\* C9 (as stated): with append_media_uid, items of different identity are
\* written to different filenames, no file of the run is overwritten and the
\* number of files on disk is the download count.
C9_CollisionFreeAsStated ==
    append_media_uid =>
        /\ \A i, j \in DOMAIN writes :
              DifferentIdentity(ItemOf(writes[i]), ItemOf(writes[j]))
                  => writes[i].filename # writes[j].filename
        /\ Cardinality(DOMAIN disk) = download_count

\* C9 (amended): with append_media_uid, items of different identity are
\* written to different filenames; when the items of the media list are
\* pairwise different in identity, no file of the run is overwritten and the
\* number of files on disk is the download count.
C9_CollisionFree ==
    append_media_uid =>
        /\ \A i, j \in DOMAIN writes :
              DifferentIdentity(ItemOf(writes[i]), ItemOf(writes[j]))
                  => writes[i].filename # writes[j].filename
        /\ (\A i, j \in DOMAIN media_list.items :
               i # j => DifferentIdentity(media_list.items[i], media_list.items[j]))
           => /\ Cardinality(DOMAIN disk) = download_count
              /\ \A i, j \in DOMAIN writes :
                    i # j => writes[i].filename # writes[j].filename

C9_Witness ==
    /\ append_media_uid
    /\ dl_pc = "done"
    /\ download_count = 2
    /\ ItemOf(writes[1]) = FrameClip7
    /\ ItemOf(writes[2]) = FrameClip7Other
    /\ Cardinality(DOMAIN disk) = 2

\* C10: a 204/404 answer for item k counts the item as skipped and the loop
\* goes on to the next item; any other request exception for item k leaves
\* the call raised with that exception: item k was the last one fetched,
\* nothing was written for it or after it, no elapsed time is returned, and
\* the files written for the items before k are on disk.
C10_FailureAsymmetry ==
    /\ fetch_count = Len(outcomes)
    /\ \A k \in DOMAIN outcomes :
          LET o == outcomes[k] IN
          /\ (o.tag = "exception" /\ o.status \in {204, 404}) =>
                /\ index >= k
                /\ skip_count >= 1
                /\ dl_pc \in {"loop", "done"} \/ fetch_count > k
          /\ (o.tag = "exception" /\ o.status \notin {204, 404}) =>
                /\ dl_pc = "raised"
                /\ dl_result = Raised("GetiRequestException", o.status)
                /\ fetch_count = k
                /\ index = k - 1
                /\ \A j \in DOMAIN writes :
                      /\ writes[j].index < k
                      /\ writes[j].filename \in DOMAIN disk
    /\ dl_pc = "raised" => dl_result.tag = "raised"

C10_Witness ==
    /\ dl_pc = "raised"
    /\ Len(outcomes) = 2
    /\ outcomes[2].tag = "exception"
    /\ outcomes[2].status = 500
    /\ Len(writes) = 1
    /\ writes[1].filename \in DOMAIN disk
    /\ dl_result = Raised("GetiRequestException", 500)
====
